---- MODULE Spec2Model ----
(***************************************************************************)
(* Model of Info_model_plant_with_motors_webapp_v2.py: the reference       *)
(* signal generator, the DC and AC motors (PI controller and first-order   *)
(* plant), the Machine / ProductionLine / Factory hierarchy and the        *)
(* simulation loop that fills motor_logs.                                   *)
(*                                                                         *)
(* Numbers.  The program computes in Python floats, IEEE 754 binary64, and *)
(* so does the model: a float is the record of its sign, exponent and      *)
(* 53-bit significand, and +, -, *, /, the comparisons and round(x, n) are *)
(* the correctly rounded operations on such records, applied in the order  *)
(* in which the program's expressions apply them.  Every float field of a  *)
(* motor and every logged value is therefore the very double the program   *)
(* holds.  Cycle numbers, operating hours and the speed references         *)
(* returned by get_speed_reference are integers, as in the program.  The   *)
(* fields Motor.__init__ sets to the int 0 (voltage, current, speed,       *)
(* torque) and ACMotor.frequency, first the int 50, are held as the floats *)
(* of the same value, which is what the first assignment makes of them.    *)
(* np.clip returns one of its three arguments; round is that of a Python   *)
(* float.                                                                  *)
(*                                                                         *)
(* Environment.  Two things come from outside the program text.  The       *)
(* string hash behind get_speed_reference is salted per process: hash_seed *)
(* is the process's PYTHONHASHSEED and str_hash the values CPython gives   *)
(* under it; the seeds explored are the first MaxHashSeeds of              *)
(* HashSeedList.  The random module's generator is shared by all motors    *)
(* and never seeded: a call of random() may return any of the 2^53 floats  *)
(* k / 2^53 of [0, 1).  The values explored, Draws, are the first MaxDraws *)
(* of DrawList, which starts with the two ends of the range and its        *)
(* middle: every behaviour of the model is one of the program, and the     *)
(* program has more.  A unit run explores every value of Draws at every    *)
(* call.  A run of the whole program, where each free call multiplies the  *)
(* runs, explores every value at its last MaxFreeDraws calls and EarlyDraw *)
(* at the calls before them.                                               *)
(***************************************************************************)
EXTENDS Integers, Sequences, FiniteSets, TLC

VARIABLES
    num_lines,          \* Factory(..., num_lines, ...)
    machines_per_line,  \* Factory(..., machines_per_line)
    total_cycles,       \* total_cycles of the simulation loop
    production_lines,   \* factory.production_lines
    motor_logs,         \* motor_logs: motor id -> the seven parallel lists
    cycle,              \* loop variable of "for cycle in range(1, total_cycles + 1)"
    line_idx,           \* position of "for line in factory.production_lines"
    machine_idx,        \* position of "for machine in self.machines"
    pc,                 \* "loop" | "dc" | "ac" | "render" | "complete" in a run,
                        \* "unit" in a unit run; nothing in the program
                        \* ever sets "config_error"
    rng,                \* number of calls of random() made so far
    hash_seed,          \* the process's string-hash seed (PYTHONHASHSEED)
    u_motor,            \* unit runs: the one motor object under test
    u_signal,           \* unit runs: the last value returned by control()
    u_last,             \* unit runs: the last method called and its argument
    u_calls             \* unit runs: number of method calls so far

vars == <<num_lines, machines_per_line, total_cycles, production_lines,
          motor_logs, cycle, line_idx, machine_idx, pc, rng, hash_seed,
          u_motor, u_signal, u_last, u_calls>>

factory_vars == <<num_lines, machines_per_line, total_cycles, production_lines,
                  motor_logs, cycle, line_idx, machine_idx>>

env_vars == <<hash_seed>>

unit_vars == <<u_motor, u_signal, u_last, u_calls>>

----------------------------------------------------------------------------
(* Bounds and program constants *)

\* Largest num_lines / machines_per_line of the configurations explored
\* besides the program's own.
MaxLines == 2
MaxMachines == 2
\* total_cycles of the runs of those configurations.
ShortRun == 3
\* Unit runs: number of control / update_motor calls on the motor under test.
MaxCalls == 3
\* Largest cycle get_speed_reference is evaluated at outside a run.
MaxProbeCycle == 200
\* Number of hash seeds explored, taken from the front of HashSeedList.
MaxHashSeeds == 2
\* Number of values of random() explored, taken from the front of DrawList.
MaxDraws == 3
\* Runs of the whole program: number of random() calls, counted back from
\* the last one of the run, explored at every value of Draws.
MaxFreeDraws == 3

\* total_cycles = 101
TotalCycles == 101
\* Factory(..., num_lines=2, machines_per_line=2)
NumLines == 2
MachinesPerLine == 2
\* get_speed_reference(cycle, motor_id, cycle_interval=50)
DefaultCycleInterval == 50

\* u_signal before the first control() call
NoSignal == [none |-> TRUE]

Intervals == {1, 7, DefaultCycleInterval}

----------------------------------------------------------------------------
(* Integer helpers *)

abs(x) == IF x < 0 THEN -x ELSE x

Max2(a, b) == IF a >= b THEN a ELSE b

----------------------------------------------------------------------------
(* Natural numbers of any size: the sequence of their digits in base Base, *)
(* lowest first, without leading zeros (zero is the empty sequence).       *)

Base == 2 ^ 14

RECURSIVE Bits(_)
Bits(d) == IF d = 0 THEN 0 ELSE 1 + Bits(d \div 2)

\* binary digits in a digit of base Base
Width == Bits(Base - 1)

Digit(n, i) == IF i <= Len(n) THEN n[i] ELSE 0

RECURSIVE Trim(_)
Trim(n) == IF n = <<>> \/ n[Len(n)] # 0 THEN n ELSE Trim(SubSeq(n, 1, Len(n) - 1))

\* The number whose digit sums, before carrying, are cols, plus c.
RECURSIVE Carry(_, _)
Carry(cols, c) ==
    IF cols = <<>>
    THEN IF c = 0 THEN <<>> ELSE <<c % Base>> \o Carry(<<>>, c \div Base)
    ELSE <<(cols[1] + c) % Base>> \o Carry(Tail(cols), (cols[1] + c) \div Base)

BigOf(i) == Carry(<<>>, i)

BigAdd(a, b) ==
    Carry([i \in 1 .. Max2(Len(a), Len(b)) |-> Digit(a, i) + Digit(b, i)], 0)

\* a - b for a >= b
BigSub(a, b) ==
    Trim(Carry([i \in 1 .. Len(a) |-> a[i] - Digit(b, i)], 0))

RECURSIVE ColumnSum(_, _, _, _)
ColumnSum(a, b, k, i) ==
    IF i > Len(a) \/ i > k THEN 0
    ELSE (IF k + 1 - i <= Len(b) THEN a[i] * b[k + 1 - i] ELSE 0) + ColumnSum(a, b, k, i + 1)

BigMul(a, b) ==
    IF a = <<>> \/ b = <<>> THEN <<>>
    ELSE Carry([k \in 1 .. Len(a) + Len(b) - 1 |-> ColumnSum(a, b, k, 1)], 0)

\* a * k for 0 <= k < 2^17
BigScale(a, k) == IF k = 0 THEN <<>> ELSE Carry([i \in 1 .. Len(a) |-> a[i] * k], 0)

\* <<a div k, a mod k>> for 0 < k < 2^17, the quotient with leading zeros
RECURSIVE LongDivision(_, _)
LongDivision(a, k) ==
    IF a = <<>> THEN <<(<<>>), 0>>
    ELSE LET high == LongDivision(Tail(a), k)
             t == high[2] * Base + a[1]
         IN  <<(<<t \div k>> \o high[1]), t % k>>

TrimQuotient(qr) == <<Trim(qr[1]), qr[2]>>

\* <<a div k, a mod k>> for 0 < k < 2^17
BigDivMod(a, k) == TrimQuotient(LongDivision(a, k))

\* -1, 0, 1 as a < b, a = b, a > b
RECURSIVE BigCmp(_, _)
BigCmp(a, b) ==
    IF Len(a) # Len(b) THEN (IF Len(a) < Len(b) THEN -1 ELSE 1)
    ELSE IF a = <<>> THEN 0
    ELSE IF a[Len(a)] # b[Len(b)] THEN (IF a[Len(a)] < b[Len(b)] THEN -1 ELSE 1)
    ELSE BigCmp(SubSeq(a, 1, Len(a) - 1), SubSeq(b, 1, Len(b) - 1))

BitLength(a) == IF a = <<>> THEN 0 ELSE Width * (Len(a) - 1) + Bits(a[Len(a)])

\* a * 2^s
ShiftLeft(a, s) ==
    IF a = <<>> THEN <<>>
    ELSE [i \in 1 .. s \div Width |-> 0]
            \o (IF s % Width = 0 THEN a ELSE BigScale(a, 2 ^ (s % Width)))

\* a div 2^s
ShiftRight(a, s) ==
    IF s \div Width >= Len(a) THEN <<>>
    ELSE BigDivMod(SubSeq(a, s \div Width + 1, Len(a)), 2 ^ (s % Width))[1]

\* q or q + 1: q is a quotient, top the highest digit of what the division
\* dropped (half is one half in that digit) and rest tells whether anything
\* nonzero was dropped below it.  A tie goes to the even number.
TieToEven(q, top, half, rest) ==
    IF \/ top > half
       \/ top = half /\ rest
       \/ top = half /\ ~rest /\ Digit(q, 1) % 2 = 1
    THEN BigAdd(q, <<1>>)
    ELSE q

\* qr is <<quotient, remainder>> of the digits of a above the w lowest
\* divided by 2^b.
RoundShifted(a, w, b, qr) ==
    IF b > 0
    THEN TieToEven(qr[1], qr[2], 2 ^ (b - 1), \E i \in 1 .. w : Digit(a, i) # 0)
    ELSE TieToEven(qr[1], Digit(a, w), Base \div 2, \E i \in 1 .. w - 1 : Digit(a, i) # 0)

\* a / 2^s to the nearest integer, a tie to the even one.  With
\* s = Width * w + b the quotient and the b highest bits dropped come from
\* dividing the digits above the w lowest by 2^b; the dropped part is
\* compared with one half digit by digit.
HalfEven(a, s) ==
    IF s = 0 THEN a
    ELSE RoundShifted(a, s \div Width, s % Width,
                      IF s \div Width >= Len(a) THEN <<(<<>>), 0>>
                      ELSE BigDivMod(SubSeq(a, s \div Width + 1, Len(a)), 2 ^ (s % Width)))

----------------------------------------------------------------------------
(* Python floats: IEEE 754 binary64.  A float is the record of its sign    *)
(* (-1, 0, 1), its exponent and its 53-bit significand man, a natural      *)
(* number in [2^52, 2^53): the value is sign * man * 2^exp.  Zero has sign *)
(* 0, exp 0 and man 0.  Every operation returns the float nearest to the   *)
(* exact result, a tie to the even significand.  No value of the program   *)
(* comes near the ends of the exponent range, which is left unbounded.     *)

Zero == [sign |-> 0, exp |-> 0, man |-> <<>>]

\* The float sign * q * 2^e of a q of 53 or, after rounding up to a power of
\* two, 54 bits.
Renormalised(sign, q, e) ==
    IF BitLength(q) = 54
    THEN [sign |-> sign, exp |-> e + 1, man |-> ShiftRight(q, 1)]
    ELSE [sign |-> sign, exp |-> e, man |-> q]

\* n of len bits
NearestOfLength(sign, n, e, len) ==
    IF len <= 53
    THEN [sign |-> sign, exp |-> e - (53 - len), man |-> ShiftLeft(n, 53 - len)]
    ELSE Renormalised(sign, HalfEven(n, len - 53), e + len - 53)

\* The float nearest to sign * n * 2^e, n > 0.
Nearest(sign, n, e) == NearestOfLength(sign, n, e, BitLength(n))

\* float(i) of an int
float(i) ==
    IF i = 0 THEN Zero ELSE Nearest(IF i < 0 THEN -1 ELSE 1, BigOf(abs(i)), 0)

float_neg(x) == [x EXCEPT !.sign = -x.sign]

float_abs(x) == [x EXCEPT !.sign = x.sign * x.sign]

\* -1, 0, 1 as |x| < |y|, |x| = |y|, |x| > |y|
MagnitudeCmp(x, y) ==
    IF x.sign = 0 \/ y.sign = 0
    THEN (IF x.sign # 0 THEN 1 ELSE IF y.sign # 0 THEN -1 ELSE 0)
    ELSE IF x.exp # y.exp THEN (IF x.exp < y.exp THEN -1 ELSE 1)
    ELSE BigCmp(x.man, y.man)

\* x < y
float_lt(x, y) ==
    IF x.sign # y.sign THEN x.sign < y.sign
    ELSE IF x.sign = 1 THEN MagnitudeCmp(x, y) < 0
    ELSE IF x.sign = -1 THEN MagnitudeCmp(x, y) > 0
    ELSE FALSE

\* x <= y
float_le(x, y) == ~float_lt(y, x)

\* sx * nx * 2^e + sy * ny * 2^e for opposite signs, c = BigCmp(nx, ny)
Difference(sx, nx, sy, ny, e, c) ==
    IF c = 0 THEN Zero
    ELSE Nearest(IF c > 0 THEN sx ELSE sy,
                 IF c > 0 THEN BigSub(nx, ny) ELSE BigSub(ny, nx), e)

\* sx * nx * 2^e + sy * ny * 2^e
AlignedSum(sx, nx, sy, ny, e) ==
    IF sx = sy THEN Nearest(sx, BigAdd(nx, ny), e)
    ELSE Difference(sx, nx, sy, ny, e, BigCmp(nx, ny))

\* x + y, both nonzero, e the smaller of their exponents
SumAt(x, y, e) ==
    AlignedSum(x.sign, ShiftLeft(x.man, x.exp - e), y.sign, ShiftLeft(y.man, y.exp - e), e)

\* x + y
float_add(x, y) ==
    IF x.sign = 0 THEN y
    ELSE IF y.sign = 0 THEN x
    ELSE IF x.exp - y.exp > 64 THEN x
    ELSE IF y.exp - x.exp > 64 THEN y
    ELSE SumAt(x, y, IF x.exp < y.exp THEN x.exp ELSE y.exp)

\* x - y
float_sub(x, y) == float_add(x, float_neg(y))

\* x * y
float_mul(x, y) ==
    IF x.sign = 0 \/ y.sign = 0 THEN Zero
    ELSE Nearest(x.sign * y.sign, BigMul(x.man, y.man), x.exp + y.exp)

\* 10^ndigits, ndigits <= 10, as the factors (each below 2^17) to multiply
\* or divide by in turn
PowerOfTen(ndigits) ==
    IF ndigits <= 5 THEN <<10 ^ ndigits>> ELSE <<10 ^ 5, 10 ^ (ndigits - 5)>>

RECURSIVE BigScaleAll(_, _)
BigScaleAll(a, ks) == IF ks = <<>> THEN a ELSE BigScaleAll(BigScale(a, ks[1]), Tail(ks))

\* <<a div (product of ks), whether a remainder is left>>, qr the quotient
\* and remainder of the division of a by the first of ks and rest the others
RECURSIVE BigDivAll(_, _)
RECURSIVE DivideOn(_, _)
Inexact(qb, remainder) == <<qb[1], qb[2] \/ remainder # 0>>

DivideOn(qr, rest) == Inexact(BigDivAll(qr[1], rest), qr[2])

BigDivAll(a, ks) ==
    IF ks = <<>> THEN <<a, FALSE>> ELSE DivideOn(BigDivMod(a, ks[1]), Tail(ks))

\* twice the quotient qb[1], plus one when the division was inexact: the
\* quotient with a last bit that keeps it off any tie
Sticky(qb) == BigAdd(ShiftLeft(qb[1], 1), IF qb[2] THEN <<1>> ELSE <<>>)

\* x / k for an int k, 0 < k < 2^14: the quotient carried 28 bits beyond
\* the significand
float_truediv(x, k) ==
    IF x.sign = 0 THEN Zero
    ELSE Nearest(x.sign, Sticky(BigDivAll(ShiftLeft(x.man, 2 * Width), <<k>>)),
                 x.exp - 2 * Width - 1)

\* The integer nearest to scaled * 2^exp, a tie to the even one.
ToDecimal(scaled, exp) ==
    IF exp >= 0 THEN ShiftLeft(scaled, exp) ELSE HalfEven(scaled, -exp)

\* The float nearest to sign * decimal / 10^ndigits.
FromDecimal(sign, decimal, ndigits) ==
    IF decimal = <<>> THEN Zero
    ELSE Nearest(sign, Sticky(BigDivAll(ShiftLeft(decimal, 8 * Width), PowerOfTen(ndigits))),
                 -(8 * Width) - 1)

\* round(x, ndigits) of a float, 0 <= ndigits <= 10: the decimal with
\* ndigits digits after the point nearest to the exact value of x (a tie to
\* the even last digit), and then the float nearest to that decimal.
round(x, ndigits) ==
    IF x.sign = 0 THEN Zero
    ELSE FromDecimal(x.sign, ToDecimal(BigScaleAll(x.man, PowerOfTen(ndigits)), x.exp), ndigits)

\* The float literal written n/d in decimal (0.01 is Literal(1, 100)): the
\* float nearest to the quotient, as the literal 's value is.
Literal(n, d) == float_truediv(float(n), d)

One == float(1)

\* clip with the range a quarter too wide at either end
clip_wide(x, lo, hi) ==
    LET slack == float_truediv(float_sub(hi, lo), 4)
        low == float_sub(lo, slack)
        high == float_add(hi, slack)
    IN  IF float_lt(x, low) THEN low ELSE IF float_lt(high, x) THEN high ELSE x

\* np.clip(x, lo, hi) of floats
clip(x, lo, hi) == IF float_lt(x, lo) THEN lo ELSE IF float_lt(hi, x) THEN hi ELSE x

----------------------------------------------------------------------------
(* The random module *)

\* The largest value random() returns, 1 - 2^-53.
LargestDraw == [sign |-> 1, exp |-> -53, man |-> BigSub(ShiftLeft(<<1>>, 53), <<1>>)]

\* Values of random(), which are the floats k / 2^53 of [0, 1): the least,
\* the largest, the middle, and the quarters.
DrawList == <<Zero, LargestDraw, Literal(1, 2), Literal(1, 4), Literal(3, 4)>>

\* The values of random() explored.
Draws == { DrawList[i] : i \in 1 .. MaxDraws }

\* The value of random() explored before the free calls of a run.
EarlyDraw == Literal(1, 2)

\* Calls of random() in a whole run of the program: two in each
\* update_motor, of two motors per machine, in every cycle.
\* range(n) is empty for n <= 0.
RunDraws == 4 * Max2(num_lines, 0) * Max2(machines_per_line, 0) * Max2(total_cycles, 0)

\* The values explored for the call of random() made after n earlier ones.
random(n) == IF n >= RunDraws - MaxFreeDraws THEN Draws ELSE {EarlyDraw}

\* a draw centred on a instead of starting at it
uniform_centred(a, b, r) ==
    float_sub(float_add(a, float_mul(float_sub(b, a), r)), float_truediv(float_sub(b, a), 2))

\* random.uniform(a, b) = a + (b - a) * random(), r the value of random()
uniform(a, b, r) == float_add(a, float_mul(float_sub(b, a), r))

----------------------------------------------------------------------------
(* Identities and the string hash *)

LineId(i) == "Line_" \o ToString(i + 1)
MachineId(line_id, i) == line_id \o "_M" \o ToString(i)
DCMotorId(machine_id) == machine_id \o "_DC"
ACMotorId(machine_id) == machine_id \o "_AC"

\* Every motor identity a factory within the explored sizes can hold.
AllMotorIds ==
    UNION { { DCMotorId(MachineId(LineId(i), j)), ACMotorId(MachineId(LineId(i), j)) } :
                i \in 0 .. Max2(MaxLines, NumLines) - 1,
                j \in 0 .. Max2(MaxMachines, MachinesPerLine) - 1 }

\* The string hash of each identity under each hash seed: the 64-bit value
\* h kept as sign(h) * (abs(h) mod 10^9), which leaves abs(h) mod 200 and
\* h mod 200 what they are.

\* PYTHONHASHSEED=4
StrHash4 ==
    ("Line_1_M0_DC" :> 500855921) @@ ("Line_1_M0_AC" :> 596465997) @@
    ("Line_1_M1_DC" :> 488204788) @@ ("Line_1_M1_AC" :> 964051237) @@
    ("Line_1_M2_DC" :> -426930887) @@ ("Line_1_M2_AC" :> 692976685) @@
    ("Line_1_M3_DC" :> -842534362) @@ ("Line_1_M3_AC" :> -442114634) @@
    ("Line_2_M0_DC" :> -753462653) @@ ("Line_2_M0_AC" :> 101680194) @@
    ("Line_2_M1_DC" :> 469783904) @@ ("Line_2_M1_AC" :> 770517219) @@
    ("Line_2_M2_DC" :> -641053794) @@ ("Line_2_M2_AC" :> 84253601) @@
    ("Line_2_M3_DC" :> 58763032) @@ ("Line_2_M3_AC" :> 504912632) @@
    ("Line_3_M0_DC" :> -464362204) @@ ("Line_3_M0_AC" :> 324970962) @@
    ("Line_3_M1_DC" :> 856064725) @@ ("Line_3_M1_AC" :> -290797587) @@
    ("Line_3_M2_DC" :> -711405733) @@ ("Line_3_M2_AC" :> -666316256) @@
    ("Line_3_M3_DC" :> 351631885) @@ ("Line_3_M3_AC" :> 262141258) @@
    ("Line_4_M0_DC" :> 352803053) @@ ("Line_4_M0_AC" :> 605179198) @@
    ("Line_4_M1_DC" :> -601524004) @@ ("Line_4_M1_AC" :> -404055520) @@
    ("Line_4_M2_DC" :> -492781037) @@ ("Line_4_M2_AC" :> -458347472) @@
    ("Line_4_M3_DC" :> 645059802) @@ ("Line_4_M3_AC" :> -328378860)

\* PYTHONHASHSEED=20
StrHash20 ==
    ("Line_1_M0_DC" :> -900621638) @@ ("Line_1_M0_AC" :> -349907937) @@
    ("Line_1_M1_DC" :> 584552041) @@ ("Line_1_M1_AC" :> 935499337) @@
    ("Line_1_M2_DC" :> 832500588) @@ ("Line_1_M2_AC" :> 806975377) @@
    ("Line_1_M3_DC" :> -530934322) @@ ("Line_1_M3_AC" :> 211553783) @@
    ("Line_2_M0_DC" :> -176994601) @@ ("Line_2_M0_AC" :> 534568704) @@
    ("Line_2_M1_DC" :> 322388688) @@ ("Line_2_M1_AC" :> 958210863) @@
    ("Line_2_M2_DC" :> 587078986) @@ ("Line_2_M2_AC" :> 83434338) @@
    ("Line_2_M3_DC" :> 676295918) @@ ("Line_2_M3_AC" :> -693109949) @@
    ("Line_3_M0_DC" :> -765697725) @@ ("Line_3_M0_AC" :> 673772067) @@
    ("Line_3_M1_DC" :> -495442989) @@ ("Line_3_M1_AC" :> 735381930) @@
    ("Line_3_M2_DC" :> 678028813) @@ ("Line_3_M2_AC" :> 613906246) @@
    ("Line_3_M3_DC" :> 566465953) @@ ("Line_3_M3_AC" :> -284314594) @@
    ("Line_4_M0_DC" :> 532123559) @@ ("Line_4_M0_AC" :> -93073988) @@
    ("Line_4_M1_DC" :> 996917031) @@ ("Line_4_M1_AC" :> -279719204) @@
    ("Line_4_M2_DC" :> -488524353) @@ ("Line_4_M2_AC" :> -130743446) @@
    ("Line_4_M3_DC" :> -752686363) @@ ("Line_4_M3_AC" :> -154847983)

\* PYTHONHASHSEED=24
StrHash24 ==
    ("Line_1_M0_DC" :> -138190382) @@ ("Line_1_M0_AC" :> 364654963) @@
    ("Line_1_M1_DC" :> -835564530) @@ ("Line_1_M1_AC" :> 547831980) @@
    ("Line_1_M2_DC" :> 422625168) @@ ("Line_1_M2_AC" :> -364352058) @@
    ("Line_1_M3_DC" :> -815437391) @@ ("Line_1_M3_AC" :> -173154732) @@
    ("Line_2_M0_DC" :> -550574001) @@ ("Line_2_M0_AC" :> 24276859) @@
    ("Line_2_M1_DC" :> -726615764) @@ ("Line_2_M1_AC" :> -980789666) @@
    ("Line_2_M2_DC" :> 9160647) @@ ("Line_2_M2_AC" :> 157207868) @@
    ("Line_2_M3_DC" :> -456871528) @@ ("Line_2_M3_AC" :> 742925463) @@
    ("Line_3_M0_DC" :> -312262605) @@ ("Line_3_M0_AC" :> -689046708) @@
    ("Line_3_M1_DC" :> 145219493) @@ ("Line_3_M1_AC" :> 336833312) @@
    ("Line_3_M2_DC" :> -754780795) @@ ("Line_3_M2_AC" :> -518720372) @@
    ("Line_3_M3_DC" :> -909724402) @@ ("Line_3_M3_AC" :> -692200377) @@
    ("Line_4_M0_DC" :> 703299313) @@ ("Line_4_M0_AC" :> -539231639) @@
    ("Line_4_M1_DC" :> 154042412) @@ ("Line_4_M1_AC" :> 162626902) @@
    ("Line_4_M2_DC" :> -252124293) @@ ("Line_4_M2_AC" :> 260946205) @@
    ("Line_4_M3_DC" :> 131641493) @@ ("Line_4_M3_AC" :> -788279492)


\* The hash seeds with a table above, in the order they are explored.
HashSeedList == <<20, 4, 24>>

HashSeeds == { HashSeedList[i] : i \in 1 .. MaxHashSeeds }

\* hash(s) of the string s in a process started with PYTHONHASHSEED=seed
str_hash(seed, s) ==
    CASE seed = 4 -> StrHash4[s]
      [] seed = 20 -> StrHash20[s]
      [] seed = 24 -> StrHash24[s]

\* hash(motor_id): a signed integer fixed by the string and the process's
\* hash seed.
hash(motor_id) == str_hash(hash_seed, motor_id)

----------------------------------------------------------------------------
(* Reference Signal Generator *)

get_speed_reference(c, motor_id, cycle_interval) ==
    LET base == (abs(hash(motor_id)) % 200) + 1000
        levels == <<base, base + 100, base + 200, base + 300>>
        index == (c \div cycle_interval) % 4
    IN  levels[index + 1]

----------------------------------------------------------------------------
(* Motor classes *)

\* The constants of the control and update_motor methods, as floats.
MaxVoltage == float(480)            \* control_signal * 480, max_voltage = 480
MinFrequency == float(40)           \* np.clip(new_frequency, 40, 60)
MaxFrequency == float(60)
gain == Literal(3125, 1000)         \* gain = 3.125
gain_ac == float(30)                \* gain_ac = 30
Ten == float(10)                    \* control_signal * 10, (frequency / 60) * 10
Half == Literal(1, 2)               \* self.current * 0.5
Tenth == Literal(1, 10)             \* control_signal * 0.1, (frequency / 60) * 0.1
TemperatureJitter == Literal(5, 100)    \* random.uniform(-0.05, 0.05)
EfficiencyJitter == Literal(1, 1000)    \* random.uniform(0, 0.001)

Motor(motor_id) ==
    [ motor_id |-> motor_id,
      voltage |-> Zero,
      current |-> Zero,
      speed |-> Zero,
      torque |-> Zero,
      efficiency |-> float(92),
      temperature |-> float(25),
      operating_hours |-> 0 ]

monitor_status(m) ==
    ("Motor ID" :> m.motor_id) @@
    ("Voltage (V)" :> m.voltage) @@
    ("Current (A)" :> round(m.current, 5)) @@
    ("Speed (RPM)" :> round(m.speed, 10)) @@
    ("Torque (Nm)" :> round(m.torque, 10)) @@
    ("Efficiency (%)" :> round(m.efficiency, 2)) @@
    ("Temperature (C)" :> round(m.temperature, 2)) @@
    ("Operating Hours" :> m.operating_hours)

DCMotor(motor_id) ==
    Motor(motor_id) @@
    [ class |-> "DCMotor",
      controller_gain |-> Literal(1, 2),      \* 0.5
      integral_gain |-> Literal(1, 100),      \* 0.01
      integral_error |-> Zero ]

\* "integral_error = error" in place of "integral_error += error"
DCMotor_control_no_accumulate(m, target_speed) ==
    LET error == float_sub(float(target_speed), m.speed)
        integral_error == error
        raw == float_add(float_mul(m.controller_gain, error),
                         float_mul(m.integral_gain, integral_error))
        control_signal == clip(raw, Zero, One)
    IN  [ motor |-> [m EXCEPT !.integral_error = integral_error,
                              !.voltage = float_mul(control_signal, MaxVoltage)],
          control_signal |-> control_signal ]

\* returns the motor after the call and the returned control_signal
DCMotor_control(m, target_speed) ==
    LET error == float_sub(float(target_speed), m.speed)
        integral_error == float_add(m.integral_error, error)
        raw == float_add(float_mul(m.controller_gain, error),
                         float_mul(m.integral_gain, integral_error))
        control_signal == clip(raw, Zero, One)
    IN  [ motor |-> [m EXCEPT !.integral_error = integral_error,
                              !.voltage = float_mul(control_signal, MaxVoltage)],
          control_signal |-> control_signal ]

\* r_temp, r_eff: the values of the two random() calls, in call order
DCMotor_update_motor(m, control_signal, r_temp, r_eff) ==
    LET applied_voltage == float_mul(control_signal, MaxVoltage)
        time_constant == 10
        current == float_mul(control_signal, Ten)
    IN  [m EXCEPT !.speed = float_add(@, float_truediv(
                                float_sub(float_mul(applied_voltage, gain), @), time_constant)),
                  !.current = current,
                  !.torque = float_mul(current, Half),
                  !.temperature = float_add(@, float_add(float_mul(control_signal, Tenth),
                        uniform(float_neg(TemperatureJitter), TemperatureJitter, r_temp))),
                  !.efficiency = float_sub(@, uniform(Zero, EfficiencyJitter, r_eff)),
                  !.operating_hours = @ + 1]

ACMotor(motor_id) ==
    Motor(motor_id) @@
    [ class |-> "ACMotor",
      base_frequency |-> 50,
      controller_gain |-> Literal(2, 100),    \* 0.02
      integral_gain |-> Literal(5, 1000),     \* 0.005
      integral_error |-> Zero,
      frequency |-> float(50) ]

ACMotor_control(m, target_speed) ==
    LET error == float_sub(float(target_speed), m.speed)
        integral_error == float_add(m.integral_error, error)
        raw == float_add(float_add(float(m.base_frequency),
                                   float_mul(m.controller_gain, error)),
                         float_mul(m.integral_gain, integral_error))
        new_frequency == clip(raw, MinFrequency, MaxFrequency)
    IN  [ motor |-> [m EXCEPT !.integral_error = integral_error,
                              !.frequency = new_frequency],
          control_signal |-> float_truediv(new_frequency, 60) ]

ACMotor_update_motor(m, control_signal, r_temp, r_eff) ==
    LET time_constant == 10
        per_sixty == float_truediv(m.frequency, 60)     \* self.frequency / 60
        current == float_mul(per_sixty, Ten)
    IN  [m EXCEPT !.speed = float_add(@, float_truediv(
                                float_sub(float_mul(m.frequency, gain_ac), @), time_constant)),
                  !.current = current,
                  !.torque = float_mul(current, Half),
                  !.temperature = float_add(@, float_add(
                        float_mul(per_sixty, Tenth),
                        uniform(float_neg(TemperatureJitter), TemperatureJitter, r_temp))),
                  !.efficiency = float_sub(@, uniform(Zero, EfficiencyJitter, r_eff)),
                  !.operating_hours = @ + 1]

----------------------------------------------------------------------------
(* Machine, Production Line, Factory *)

Machine(machine_id) ==
    [ machine_id |-> machine_id,
      dc_motor |-> DCMotor(DCMotorId(machine_id)),
      ac_motor |-> ACMotor(ACMotorId(machine_id)),
      status |-> "Running" ]

\* range(n): empty for n <= 0
ProductionLine(line_id, num_machines) ==
    [ line_id |-> line_id,
      machines |-> [i \in 1 .. num_machines |-> Machine(MachineId(line_id, i - 1))] ]

\* every line named after the first one
Factory_same_line_id(factory_name, n_lines, n_machines) ==
    [ factory_name |-> factory_name,
      production_lines |-> [i \in 1 .. n_lines |-> ProductionLine(LineId(0), n_machines)] ]

Factory(factory_name, n_lines, n_machines) ==
    [ factory_name |-> factory_name,
      production_lines |-> [i \in 1 .. n_lines |-> ProductionLine(LineId(i - 1), n_machines)] ]

EmptyLog ==
    [ cycle |-> <<>>, speed |-> <<>>, temperature |-> <<>>, efficiency |-> <<>>,
      current |-> <<>>, torque |-> <<>>, reference |-> <<>> ]

\* the append to "reference" left out
LogAppend_no_reference(logs, motor_id, c, status, target_speed) ==
    LET have == IF motor_id \in DOMAIN logs THEN logs ELSE logs @@ (motor_id :> EmptyLog)
    IN  [have EXCEPT ![motor_id] =
            [ cycle |-> Append(@.cycle, c),
              speed |-> Append(@.speed, status["Speed (RPM)"]),
              temperature |-> Append(@.temperature, status["Temperature (C)"]),
              efficiency |-> Append(@.efficiency, status["Efficiency (%)"]),
              current |-> Append(@.current, status["Current (A)"]),
              torque |-> Append(@.torque, status["Torque (Nm)"]),
              reference |-> @.reference ]]

\* the entry created anew on every call, the "not in" test left out
LogAppend_recreate(logs, motor_id, c, status, target_speed) ==
    [ id \in DOMAIN logs \cup {motor_id} |->
        IF id = motor_id
        THEN [ cycle |-> <<c>>,
               speed |-> <<status["Speed (RPM)"]>>,
               temperature |-> <<status["Temperature (C)"]>>,
               efficiency |-> <<status["Efficiency (%)"]>>,
               current |-> <<status["Current (A)"]>>,
               torque |-> <<status["Torque (Nm)"]>>,
               reference |-> <<target_speed>> ]
        ELSE logs[id] ]

\* "if motor_id not in motor_logs: motor_logs[motor_id] = {...}" and the
\* seven appends that follow
LogAppend(logs, motor_id, c, status, target_speed) ==
    LET have == IF motor_id \in DOMAIN logs THEN logs ELSE logs @@ (motor_id :> EmptyLog)
    IN  [have EXCEPT ![motor_id] =
            [ cycle |-> Append(@.cycle, c),
              speed |-> Append(@.speed, status["Speed (RPM)"]),
              temperature |-> Append(@.temperature, status["Temperature (C)"]),
              efficiency |-> Append(@.efficiency, status["Efficiency (%)"]),
              current |-> Append(@.current, status["Current (A)"]),
              torque |-> Append(@.torque, status["Torque (Nm)"]),
              reference |-> Append(@.reference, target_speed) ]]


\* The DC half of Machine.update_machines, r_temp and r_eff the values of
\* the two random() calls it makes: the machine and the log after it.
Machine_update_dc(machine, c, logs, r_temp, r_eff) ==
    LET target_speed_dc == get_speed_reference(c, machine.dc_motor.motor_id, DefaultCycleInterval)
        \* status_dc = self.dc_motor.monitor_status() and the appends
        logged(motor) ==
            [ machine |-> [machine EXCEPT !.dc_motor = motor],
              motor_logs |-> LogAppend(logs, motor.motor_id, c, monitor_status(motor),
                                       target_speed_dc) ]
        \* self.dc_motor.update_motor(dc_control_signal)
        updated(ctl) ==
            logged(DCMotor_update_motor(ctl.motor, ctl.control_signal, r_temp, r_eff))
    IN  updated(DCMotor_control(machine.dc_motor, target_speed_dc))

\* The AC half of Machine.update_machines.
Machine_update_ac(machine, c, logs, r_temp, r_eff) ==
    LET target_speed_ac == get_speed_reference(c, machine.ac_motor.motor_id, DefaultCycleInterval)
        logged(motor) ==
            [ machine |-> [machine EXCEPT !.ac_motor = motor],
              motor_logs |-> LogAppend(logs, motor.motor_id, c, monitor_status(motor),
                                       target_speed_ac) ]
        updated(ctl) ==
            logged(ACMotor_update_motor(ctl.motor, ctl.control_signal, r_temp, r_eff))
    IN  updated(ACMotor_control(machine.ac_motor, target_speed_ac))

----------------------------------------------------------------------------
(* The simulation loop *)

\* Lines that have a machine at all, from line index l on.
LinesWithMachinesFrom(l) ==
    { k \in l .. Len(production_lines) : Len(production_lines[k].machines) > 0 }

Min(S) == CHOOSE x \in S : \A y \in S : x <= y

\* The configurations explored: every (num_lines, machines_per_line) in
\* -1 .. Max with a short, an empty and a negative run, and the program's
\* own configuration with its own total_cycles.
Configurations ==
    { <<l, m, t>> : l \in -1 .. MaxLines, m \in -1 .. MaxMachines, t \in {-1, 0, ShortRun} }
    \cup { <<NumLines, MachinesPerLine, TotalCycles>> }

Init ==
    /\ \E cfg \in Configurations :
          /\ num_lines = cfg[1]
          /\ machines_per_line = cfg[2]
          /\ total_cycles = cfg[3]
          /\ production_lines =
                Factory("Smart Information Model Factory", cfg[1], cfg[2]).production_lines
    /\ motor_logs = <<>>
    /\ cycle = 0
    /\ line_idx = 0
    /\ machine_idx = 0
    /\ pc = "loop"
    /\ rng = 0
    /\ hash_seed \in HashSeeds
    /\ u_motor = <<>>
    /\ u_signal = NoSignal
    /\ u_last = [method |-> "none", arg |-> 0]
    /\ u_calls = 0

\* "for cycle in range(1, total_cycles + 1)": the next iteration, entering
\* the loops over lines and machines at the first machine there is, or the
\* end of the run.
NextCycle ==
    /\ pc = "loop"
    /\ IF cycle + 1 <= total_cycles
       THEN /\ cycle' = cycle + 1
            /\ IF LinesWithMachinesFrom(1) = {}
               THEN /\ pc' = "render"
                    /\ UNCHANGED <<line_idx, machine_idx>>
               ELSE /\ pc' = "dc"
                    /\ line_idx' = Min(LinesWithMachinesFrom(1))
                    /\ machine_idx' = 1
       ELSE /\ pc' = "complete"
            /\ UNCHANGED <<cycle, line_idx, machine_idx>>
    /\ UNCHANGED <<num_lines, machines_per_line, total_cycles, production_lines,
                   motor_logs, rng>>
    /\ UNCHANGED env_vars
    /\ UNCHANGED unit_vars

\* Machine.update_machines, DC motor
update_machines_dc ==
    /\ pc = "dc"
    /\ \E r_temp \in random(rng), r_eff \in random(rng + 1) :
          \E r \in {Machine_update_dc(production_lines[line_idx].machines[machine_idx],
                                     cycle, motor_logs, r_temp, r_eff)} :
              /\ production_lines' =
                    [production_lines EXCEPT ![line_idx].machines[machine_idx] = r.machine]
              /\ motor_logs' = r.motor_logs
    /\ rng' = rng + 2
    /\ pc' = "ac"
    /\ UNCHANGED <<num_lines, machines_per_line, total_cycles, cycle, line_idx,
                   machine_idx>>
    /\ UNCHANGED env_vars
    /\ UNCHANGED unit_vars

\* Machine.update_machines, AC motor, and the step to the next machine of
\* the line, the next line, or the end of the cycle's updates
update_machines_ac ==
    /\ pc = "ac"
    /\ \E r_temp \in random(rng), r_eff \in random(rng + 1) :
          \E r \in {Machine_update_ac(production_lines[line_idx].machines[machine_idx],
                                     cycle, motor_logs, r_temp, r_eff)} :
              /\ production_lines' =
                    [production_lines EXCEPT ![line_idx].machines[machine_idx] = r.machine]
              /\ motor_logs' = r.motor_logs
    /\ rng' = rng + 2
    /\ IF machine_idx < Len(production_lines[line_idx].machines)
       THEN /\ machine_idx' = machine_idx + 1
            /\ pc' = "dc"
            /\ UNCHANGED line_idx
       ELSE IF LinesWithMachinesFrom(line_idx + 1) # {}
       THEN /\ line_idx' = Min(LinesWithMachinesFrom(line_idx + 1))
            /\ machine_idx' = 1
            /\ pc' = "dc"
       ELSE /\ pc' = "render"
            /\ UNCHANGED <<line_idx, machine_idx>>
    /\ UNCHANGED <<num_lines, machines_per_line, total_cycles, cycle>>
    /\ UNCHANGED env_vars
    /\ UNCHANGED unit_vars

\* The rest of the loop body: figures, table, sleep.  Reads motor_logs only.
Render ==
    /\ pc = "render"
    /\ pc' = "loop"
    /\ UNCHANGED factory_vars
    /\ UNCHANGED rng
    /\ UNCHANGED env_vars
    /\ UNCHANGED unit_vars

Next == NextCycle \/ update_machines_dc \/ update_machines_ac \/ Render

Spec == Init /\ [][Next]_vars

----------------------------------------------------------------------------
(* Unit runs: one motor object, its control and update_motor methods       *)
(* called in any order with any of a few target speeds.                    *)

\* method dispatch on the motor's class
control(m, target_speed) ==
    IF m.class = "DCMotor" THEN DCMotor_control(m, target_speed)
    ELSE ACMotor_control(m, target_speed)

update_motor(m, control_signal, r_temp, r_eff) ==
    IF m.class = "DCMotor" THEN DCMotor_update_motor(m, control_signal, r_temp, r_eff)
    ELSE ACMotor_update_motor(m, control_signal, r_temp, r_eff)

\* Target speeds of the unit runs: standstill, and the lowest and the
\* highest value get_speed_reference can return.
UnitTargets == {0, 1000, 1499}

InitMotor ==
    /\ num_lines = 0
    /\ machines_per_line = 0
    /\ total_cycles = 0
    /\ production_lines = <<>>
    /\ motor_logs = <<>>
    /\ cycle = 0
    /\ line_idx = 0
    /\ machine_idx = 0
    /\ pc = "unit"
    /\ rng = 0
    /\ hash_seed = HashSeedList[1]      \* read by no method of a motor
    /\ u_motor \in {DCMotor("Line_1_M0_DC"), ACMotor("Line_1_M0_AC")}
    /\ u_signal = NoSignal
    /\ u_last = [method |-> "none", arg |-> 0]
    /\ u_calls = 0

UnitControl ==
    /\ pc = "unit"
    /\ u_calls < MaxCalls
    /\ \E target_speed \in UnitTargets :
          \E r \in {control(u_motor, target_speed)} :
              /\ u_motor' = r.motor
              /\ u_signal' = r.control_signal
              /\ u_last' = [method |-> "control", arg |-> target_speed]
    /\ u_calls' = u_calls + 1
    /\ UNCHANGED factory_vars
    /\ UNCHANGED <<pc, rng>>
    /\ UNCHANGED env_vars

UnitUpdate ==
    /\ pc = "unit"
    /\ u_calls < MaxCalls
    /\ u_signal # NoSignal
    /\ \E r_temp \in Draws, r_eff \in Draws :
          u_motor' = update_motor(u_motor, u_signal, r_temp, r_eff)
    /\ rng' = rng + 2
    /\ u_last' = [method |-> "update_motor", arg |-> u_signal]
    /\ u_calls' = u_calls + 1
    /\ UNCHANGED factory_vars
    /\ UNCHANGED <<pc, u_signal>>
    /\ UNCHANGED env_vars

NextMotor == UnitControl \/ UnitUpdate

SpecMotor == InitMotor /\ [][NextMotor]_vars

----------------------------------------------------------------------------
(* Runs of the whole program and unit runs together *)

InitAll == Init \/ InitMotor

NextAll == Next \/ NextMotor

SpecAll == InitAll /\ [][NextAll]_vars

----------------------------------------------------------------------------
(* Vocabulary of the properties *)

\* Cycles whose updates are all done.
CyclesDone == IF pc \in {"dc", "ac"} THEN cycle - 1 ELSE cycle

LogFields == {"cycle", "speed", "reference", "temperature", "efficiency", "current", "torque"}

\* Positions (line, machine) of the hierarchy, and its motors.
Positions ==
    UNION { { <<l, m>> : m \in 1 .. Len(production_lines[l].machines) } :
                l \in 1 .. Len(production_lines) }

MachineAt(p) == production_lines[p[1]].machines[p[2]]

FactoryMotorIds ==
    { MachineAt(p).dc_motor.motor_id : p \in Positions }
        \cup { MachineAt(p).ac_motor.motor_id : p \in Positions }

\* p comes before q in the order lines -> machines
Before(p, q) == p[1] < q[1] \/ (p[1] = q[1] /\ p[2] < q[2])

IsPrefix(old, new) == Len(old) <= Len(new) /\ SubSeq(new, 1, Len(old)) = old

\* self.efficiency = 92.0
InitialEfficiency == float(92)

----------------------------------------------------------------------------
(* C1 *)

\* C1: for every motor id in motor_logs the seven lists have one length;
\* whenever no update of the current cycle is pending (N cycles completed)
\* that length is N, and inside a cycle it is N or N - 1.
C1_LogLengths ==
    \A id \in DOMAIN motor_logs :
        LET n == Len(motor_logs[id].cycle)
        IN  /\ \A f \in LogFields : Len(motor_logs[id][f]) = n
            /\ pc \in {"loop", "render", "complete"} => n = cycle
            /\ pc \in {"dc", "ac"} => n \in {cycle - 1, cycle}

C1_Witness ==
    /\ pc = "render"
    /\ cycle = TotalCycles
    /\ Cardinality(DOMAIN motor_logs) = 2 * NumLines * MachinesPerLine
    /\ \A id \in DOMAIN motor_logs : Len(motor_logs[id].reference) = TotalCycles

----------------------------------------------------------------------------
(* C2 *)

\* C2: a factory of L >= 1 lines and M >= 1 machines per line holds 2*L*M
\* motors with pairwise different ids; once a cycle is complete the keys of
\* motor_logs are exactly those ids, and the key set never changes after.
C2_Composition ==
    /\ [](num_lines >= 1 /\ machines_per_line >= 1 =>
            /\ Cardinality(Positions) = num_lines * machines_per_line
            /\ Cardinality(FactoryMotorIds) = 2 * num_lines * machines_per_line
            /\ CyclesDone >= 1 =>
                  /\ DOMAIN motor_logs = FactoryMotorIds
                  /\ Cardinality(DOMAIN motor_logs) = 2 * num_lines * machines_per_line)
    /\ [][CyclesDone >= 1 => DOMAIN motor_logs' = DOMAIN motor_logs]_vars

C2_Witness ==
    /\ num_lines = 2
    /\ machines_per_line = 2
    /\ CyclesDone = 2
    /\ pc = "ac"
    /\ Cardinality(DOMAIN motor_logs) = 8

----------------------------------------------------------------------------
(* C3 *)

\* The base as the property states it, (hash(id) mod 200) + 1000, in a
\* process started with the given hash seed.  (Line 25 takes abs(hash(id))
\* first: that base is the one inside get_speed_reference.)
StatedBase(seed, motor_id) == (str_hash(seed, motor_id) % 200) + 1000

\* C3: with base = (hash(id) mod 200) + 1000,
\*  - base lies in [1000, 1200) and depends only on id: it is the same
\*    under every hash seed a process can be started with;
\*  - get_speed_reference(c, id, interval) = base + 100 * ((c div interval) mod 4)
\*    for every id, every cycle 0 .. MaxProbeCycle and every interval tried;
\*  - with interval 50 the index is 0 for cycles 0-49, 1 for 50-99, 2 for 100;
\*  - every logged reference is its motor's base + 100 * index of its cycle.
C3_Reference ==
    /\ cycle = 0 =>
          \A id \in AllMotorIds :
              LET base == StatedBase(hash_seed, id)
              IN  /\ base \in 1000 .. 1199
                  /\ \A i \in 1 .. Len(HashSeedList) : StatedBase(HashSeedList[i], id) = base
                  /\ \A c \in 0 .. MaxProbeCycle, i \in Intervals :
                        get_speed_reference(c, id, i) = base + 100 * ((c \div i) % 4)
                  /\ \A c \in 0 .. 49 : get_speed_reference(c, id, 50) = base
                  /\ \A c \in 50 .. 99 : get_speed_reference(c, id, 50) = base + 100
                  /\ get_speed_reference(100, id, 50) = base + 200
    /\ \A id \in DOMAIN motor_logs :
          \A k \in 1 .. Len(motor_logs[id].reference) :
              motor_logs[id].reference[k] =
                  StatedBase(hash_seed, id) + 100 * ((motor_logs[id].cycle[k] \div 50) % 4)

----------------------------------------------------------------------------
(* C4 *)

----------------------------------------------------------------------------
(* C5 *)

\* C5: whatever values random() returns, no step raises any motor's
\* efficiency, which starts at 92.0, and every logged efficiency list is
\* non-increasing.
C5_EfficiencyNonIncreasing ==
    /\ [](\A id \in DOMAIN motor_logs :
             LET e == motor_logs[id].efficiency
             IN  /\ \A k \in 1 .. Len(e) : float_le(e[k], InitialEfficiency)
                 /\ \A k \in 1 .. Len(e) - 1 : float_le(e[k + 1], e[k]))
    /\ [](\A p \in Positions :
             /\ float_le(MachineAt(p).dc_motor.efficiency, InitialEfficiency)
             /\ float_le(MachineAt(p).ac_motor.efficiency, InitialEfficiency))
    /\ [][\A p \in Positions :
             /\ float_le(MachineAt(p).dc_motor.efficiency', MachineAt(p).dc_motor.efficiency)
             /\ float_le(MachineAt(p).ac_motor.efficiency', MachineAt(p).ac_motor.efficiency)]_vars
    /\ [](pc = "unit" => float_le(u_motor.efficiency, InitialEfficiency))
    /\ [][pc = "unit" => float_le(u_motor'.efficiency, u_motor.efficiency)]_vars

\* a full run whose last machine drew, in its last steps, the largest
\* decrement there is for its DC motor and none for its AC motor (the first
\* machine's motors drew EarlyDraw), and in which a logged list stood still
\* in one cycle and fell in another
C5_Witness ==
    /\ pc = "complete"
    /\ total_cycles = TotalCycles
    /\ float_lt(MachineAt(<<2, 2>>).dc_motor.efficiency, MachineAt(<<1, 1>>).dc_motor.efficiency)
    /\ float_lt(MachineAt(<<1, 1>>).ac_motor.efficiency, MachineAt(<<2, 2>>).ac_motor.efficiency)
    /\ float_lt(MachineAt(<<2, 2>>).ac_motor.efficiency, InitialEfficiency)
    /\ \E id \in DOMAIN motor_logs :
          LET e == motor_logs[id].efficiency
          IN  /\ \E k \in 1 .. Len(e) - 1 : float_lt(e[k + 1], e[k])
              /\ \E k \in 1 .. Len(e) - 1 : e[k + 1] = e[k]

----------------------------------------------------------------------------
(* C6 *)

\* one RPM
Epsilon == float(1)

\* C6: whenever the last 50 logged references of a motor are one level, the
\* last logged speed is within Epsilon of it.
C6_SpeedTracking ==
    \A id \in DOMAIN motor_logs :
        LET n == Len(motor_logs[id].cycle)
            ref == motor_logs[id].reference
        IN  (n >= 50 /\ \A k \in (n - 49) .. n : ref[k] = ref[n]) =>
                float_lt(float_abs(float_sub(motor_logs[id].speed[n], float(ref[n]))), Epsilon)

----------------------------------------------------------------------------
(* C7 *)

InvalidConfiguration == num_lines <= 0 \/ machines_per_line <= 0 \/ total_cycles <= 0

\* C7: a configuration with a count <= 0 is in the error state, with no
\* hierarchy and no log entry.
C7_InvalidConfigFailsFast ==
    (pc # "unit" /\ InvalidConfiguration) =>
        /\ pc = "config_error"
        /\ production_lines = <<>>
        /\ motor_logs = <<>>

----------------------------------------------------------------------------
(* C8 *)

ControlStep == u_calls' = u_calls + 1 /\ u_last'.method = "control"
UpdateStep == u_calls' = u_calls + 1 /\ u_last'.method = "update_motor"

IntegralAccumulates ==
    u_motor'.integral_error =
        float_add(u_motor.integral_error, float_sub(float(u_last'.arg), u_motor.speed))

\* C8 as stated: control adds the error to integral_error and changes no
\* other field of the motor.
C8_ControlFrameOriginal ==
    [][ControlStep =>
          /\ IntegralAccumulates
          /\ \A f \in DOMAIN u_motor \ {"integral_error"} : u_motor'[f] = u_motor[f]]_vars

\* the field control writes besides integral_error
ActuationField(m) == IF m.class = "DCMotor" THEN "voltage" ELSE "frequency"

\* C8, amended: control adds the error to integral_error, sets the actuation
\* field (DC: voltage = 480 * signal, AC: frequency) and changes no other
\* field; update_motor changes neither integral_error, nor the actuation
\* field, nor the gains, nor the identity.
C8_ControlFrame ==
    /\ [][ControlStep =>
            /\ IntegralAccumulates
            /\ DOMAIN u_motor' = DOMAIN u_motor
            /\ \A f \in DOMAIN u_motor \ {"integral_error", ActuationField(u_motor)} :
                  u_motor'[f] = u_motor[f]]_vars
    /\ [][UpdateStep =>
            /\ DOMAIN u_motor' = DOMAIN u_motor
            /\ \A f \in {"integral_error", ActuationField(u_motor), "controller_gain",
                         "integral_gain", "motor_id", "class"} :
                  u_motor'[f] = u_motor[f]
            /\ u_motor'.operating_hours = u_motor.operating_hours + 1]_vars

\* control called on a motor that already runs, after an earlier control
C8_Witness ==
    /\ pc = "unit"
    /\ u_last.method = "control"
    /\ u_calls >= 3
    /\ float_lt(float(0), u_motor.speed)
    /\ u_motor.operating_hours >= 1
    /\ u_motor.integral_error # float_sub(float(u_last.arg), u_motor.speed)

----------------------------------------------------------------------------
(* C9 *)

\* C9: each motor's cycle list is 1, 2, ..., n; a step only appends, at most
\* one entry, to each list of each motor already logged; and after the
\* updates of cycle k every logged motor has exactly k entries.
C9_AppendOnly ==
    /\ [](\A id \in DOMAIN motor_logs :
             /\ \A k \in 1 .. Len(motor_logs[id].cycle) : motor_logs[id].cycle[k] = k
             /\ pc \in {"loop", "render", "complete"} => Len(motor_logs[id].cycle) = cycle)
    /\ [][\A id \in DOMAIN motor_logs :
             /\ id \in DOMAIN motor_logs'
             /\ \A f \in LogFields :
                   /\ IsPrefix(motor_logs[id][f], motor_logs'[id][f])
                   /\ Len(motor_logs'[id][f]) <= Len(motor_logs[id][f]) + 1]_vars

C9_Witness ==
    /\ pc = "complete"
    /\ total_cycles = TotalCycles
    /\ Cardinality(DOMAIN motor_logs) = 8
    /\ \A id \in DOMAIN motor_logs :
          /\ Len(motor_logs[id].cycle) = TotalCycles
          /\ motor_logs[id].cycle[TotalCycles] = TotalCycles

----------------------------------------------------------------------------
(* C10 *)

\* The motor the next step will update, and its place.
Here == <<line_idx, machine_idx>>

\* The machine at the loop position after its two motors were stepped, the
\* DC motor first as in update_machines or the AC motor first, on the next
\* four values d[1] .. d[4] of the random module's stream.
SteppedDCFirst(d) ==
    LET dc == Machine_update_dc(MachineAt(Here), cycle, motor_logs, d[1], d[2])
    IN  Machine_update_ac(dc.machine, cycle, dc.motor_logs, d[3], d[4]).machine

SteppedACFirst(d) ==
    LET ac == Machine_update_ac(MachineAt(Here), cycle, motor_logs, d[1], d[2])
    IN  Machine_update_dc(ac.machine, cycle, ac.motor_logs, d[3], d[4]).machine

\* C10: motors are stepped once per cycle in the order lines -> machines ->
\* DC, AC (operating_hours tells who has been stepped: the motors before the
\* current place have the current cycle's count, those after it the previous
\* one, and between cycles all have the number of completed cycles); a step
\* changes the state and the log entry of the one motor it updates and of no
\* other, and the steps between updates change none; and the order of the
\* steps does not affect the resulting state: whatever the random module
\* returns next, stepping a machine's AC motor before its DC motor leaves
\* both motors as stepping them in the program's order does.
C10_MotorIsolation ==
    /\ [](\A p \in Positions :
             LET dc == MachineAt(p).dc_motor
                 ac == MachineAt(p).ac_motor
             IN  IF pc \in {"dc", "ac"}
                 THEN /\ Before(p, Here) => dc.operating_hours = cycle /\ ac.operating_hours = cycle
                      /\ Before(Here, p) => dc.operating_hours = cycle - 1
                                              /\ ac.operating_hours = cycle - 1
                      /\ p = Here => /\ dc.operating_hours = IF pc = "dc" THEN cycle - 1 ELSE cycle
                                     /\ ac.operating_hours = cycle - 1
                 ELSE dc.operating_hours = cycle /\ ac.operating_hours = cycle)
    /\ [][/\ DOMAIN production_lines' = DOMAIN production_lines
          /\ \A p \in Positions :
                /\ (pc = "dc" /\ p = Here) \/ MachineAt(p).dc_motor' = MachineAt(p).dc_motor
                /\ (pc = "ac" /\ p = Here) \/ MachineAt(p).ac_motor' = MachineAt(p).ac_motor
          /\ \A id \in DOMAIN motor_logs :
                \/ pc = "dc" /\ id = MachineAt(Here).dc_motor.motor_id
                \/ pc = "ac" /\ id = MachineAt(Here).ac_motor.motor_id
                \/ motor_logs'[id] = motor_logs[id]
          /\ pc = "dc" =>
                /\ MachineAt(Here).dc_motor' # MachineAt(Here).dc_motor
                /\ pc' = "ac" /\ line_idx' = line_idx /\ machine_idx' = machine_idx
          /\ pc = "ac" =>
                /\ MachineAt(Here).ac_motor' # MachineAt(Here).ac_motor
                /\ pc' = "dc" => Before(Here, <<line_idx', machine_idx'>>)]_vars
    /\ [](pc = "dc" => \A d \in [1 .. 4 -> Draws] : SteppedACFirst(d) = SteppedDCFirst(d))

====
